---- MODULE Spec2Model ----
(***************************************************************************)
(* Model of blog-tookkit/toolkit.py: class BlogInfrastructure, a linear    *)
(* orchestration of provider calls (S3, ACM, CloudFront, Route53, STS)     *)
(* around a small ledger of resource identifiers (self.resources).         *)
(*                                                                         *)
(* Every method is one action.  The outcome of each provider call the      *)
(* method issues is an input of the action (\E), limited by what the       *)
(* provider can answer in its current state.  `calls` is the trace of the  *)
(* provider calls the last method issued and `last` its name, argument,    *)
(* return value and the ledger it started from.                            *)
(***************************************************************************)
EXTENDS Integers, Sequences, FiniteSets, TLC

\* Python's None; identifiers are tuples, so None is the empty tuple.
None == <<>>

\* Bounds of the model.
NumCerts == 2
NumDists == 2
MaxZones == 2

\* Identifiers the providers hand out.
CertArns == {<<"cert", i>> : i \in 1..NumCerts}
DistIds == {<<"dist", i>> : i \in 1..NumDists}
ZoneIds == {<<"zone", 1>>, <<"zone", 2>>}

\* response['Distribution']['DomainName'] of distribution d.
DomainOf(d) == <<"edge", d[2]>>
DistDomains == {DomainOf(d) : d \in DistIds}

\* Domain names are sequences of characters.
Domains == {<<"a">>, <<"b">>, <<"a", ".">>}

\* Names Route53 reports for hosted zones: fully qualified, at most one
\* trailing dot.
ZoneNames == {<<"a", ".">>, <<"b", ".">>, <<"a">>, <<"b", ".", "a", ".">>}
ZoneRecords == [Name : ZoneNames, Id : ZoneIds]

RECURSIVE SeqsUpTo(_, _)
SeqsUpTo(S, n) ==
    IF n = 0 THEN {<<>>}
    ELSE LET shorter == SeqsUpTo(S, n - 1)
         IN  shorter \cup {Append(s, x) : s \in {t \in shorter : Len(t) = n - 1}, x \in S}

\* The four flags of PublicAccessBlockConfiguration.
AllFlags == {"BlockPublicAcls", "IgnorePublicAcls", "BlockPublicPolicy", "RestrictPublicBuckets"}

VARIABLES
    domain_name,   \* self.domain_name (= self.bucket_name)
    zones,         \* Route53: response['HostedZones'] of list_hosted_zones
    resources,     \* self.resources, the ledger
    bucket,        \* S3: the bucket named bucket_name
    dns,           \* Route53: the record sets, as a set of records
    last,          \* the method call that has just returned, or Idle
    calls          \* provider calls issued by the last method, in order

vars == <<domain_name, zones, resources, bucket, dns, last, calls>>

\* self.www_domain = f"www.{domain_name}"
www_domain == <<"w", "w", "w", ".">> \o domain_name

\* One provider call: the API, its outcome ("ok" or an error code), the
\* identifier it passes that refers to an earlier stage (ref) and the value the
\* ledger holds for that identifier when the call is made (held).
Call(api, out, ref, held) == [api |-> api, out |-> out, ref |-> ref, held |-> held]

NoBucket == [exists |-> FALSE, versioning |-> FALSE, pab |-> {}, policy |-> None, index |-> FALSE]

\* s3.create_bucket on a missing bucket: unversioned, no public access block,
\* no policy, no index.html.
NewBucket == [exists |-> TRUE, versioning |-> FALSE, pab |-> {}, policy |-> None, index |-> FALSE]

\* What create_bucket can answer: a bucket the caller owns is answered with
\* "ok" (us-east-1) or BucketAlreadyOwnedByYou (other regions); "ClientError"
\* stands for every other error code.
CreateBucketOutcomes(b) ==
    IF b.exists THEN {"ok", "BucketAlreadyOwnedByYou", "ClientError"}
    ELSE {"ok", "ClientError"}

\* A call on the bucket can succeed only if the bucket exists.
BucketCallOutcomes(b) == IF b.exists THEN {"ok", "ClientError"} ELSE {"ClientError"}

\* Mutant of run_create_s3_bucket: BucketAlreadyOwnedByYou is reported as a
\* failure like every other error.
run_create_s3_bucket_ownedFails(b, o1, o2, o3) ==
    LET b1 == IF b.exists THEN b ELSE NewBucket
        b2 == [b1 EXCEPT !.versioning = TRUE]
        b3 == [b2 EXCEPT !.pab = AllFlags]
        c1 == Call("create_bucket", o1, None, None)
        c2 == Call("put_bucket_versioning", o2, None, None)
        c3 == Call("put_public_access_block", o3, None, None)
    IN  IF o1 # "ok"
        THEN [ret |-> FALSE, bucket |-> b, calls |-> <<c1>>]
        ELSE IF o2 # "ok"
        THEN [ret |-> FALSE, bucket |-> b1, calls |-> <<c1, c2>>]
        ELSE IF o3 # "ok"
        THEN [ret |-> FALSE, bucket |-> b2, calls |-> <<c1, c2, c3>>]
        ELSE [ret |-> TRUE, bucket |-> b3, calls |-> <<c1, c2, c3>>]

\* create_s3_bucket with create_bucket answering o1, put_bucket_versioning o2
\* and put_public_access_block o3: the return value, the bucket afterwards and
\* the calls issued.
run_create_s3_bucket(b, o1, o2, o3) ==
    LET b1 == IF b.exists THEN b ELSE NewBucket
        b2 == [b1 EXCEPT !.versioning = TRUE]
        b3 == [b2 EXCEPT !.pab = AllFlags]
        c1 == Call("create_bucket", o1, None, None)
        c2 == Call("put_bucket_versioning", o2, None, None)
        c3 == Call("put_public_access_block", o3, None, None)
    IN  IF o1 # "ok"
        THEN [ret |-> (o1 = "BucketAlreadyOwnedByYou"), bucket |-> b, calls |-> <<c1>>]
        ELSE IF o2 # "ok"
        THEN [ret |-> FALSE, bucket |-> b1, calls |-> <<c1, c2>>]
        ELSE IF o3 # "ok"
        THEN [ret |-> FALSE, bucket |-> b2, calls |-> <<c1, c2, c3>>]
        ELSE [ret |-> TRUE, bucket |-> b3, calls |-> <<c1, c2, c3>>]

\* The outcomes of the three calls of create_s3_bucket the provider can give.
S3Outcomes(b) ==
    {o \in CreateBucketOutcomes(b) \X {"ok", "ClientError"} \X {"ok", "ClientError"} :
        \* calls that are not reached have no outcome: fix it to "ok"
        /\ (o[1] # "ok" => o[2] = "ok")
        /\ (o[2] # "ok" => o[3] = "ok")}

\* BlogInfrastructure.__init__: the ledger of a new object.
NewResources ==
    [certificate_arn |-> None, distribution_id |-> None, hosted_zone_id |-> None,
     cloudfront_domain |-> None]

\* No method is running and the result of the last one has been taken.
Idle ==
    [op |-> "idle", arg |-> None, ret |-> None, stages |-> <<>>,
     pre |-> NewResources, had |-> FALSE, dns0 |-> {}]

\* The record of a method call: its name, argument and return value, the
\* methods of self it invoked, the ledger it started from (pre), whether the
\* bucket existed then (had) and the record sets of Route53 then (dns0).
Last(op, arg, ret, stages) ==
    [op |-> op, arg |-> arg, ret |-> ret, stages |-> stages,
     pre |-> resources, had |-> bucket.exists, dns0 |-> dns]

create_s3_bucket ==
    /\ last.op = "idle"
    /\ \E o \in S3Outcomes(bucket) :
        LET r == run_create_s3_bucket(bucket, o[1], o[2], o[3])
        IN  /\ bucket' = r.bucket
            /\ calls' = r.calls
            /\ last' = Last("create_s3_bucket", None, r.ret, <<>>)
            /\ UNCHANGED <<domain_name, zones, resources, dns>>

\* request_ssl_certificate: acm.request_certificate answers with a new
\* certificate ARN or an error.
CertOutcomes ==
    {[out |-> "ok", id |-> c] : c \in CertArns} \cup {[out |-> "ClientError", id |-> None]}

run_request_ssl_certificate(res, o) ==
    LET c1 == Call("request_certificate", o.out, None, None)
    IN  IF o.out = "ok"
        THEN [ret |-> o.id, resources |-> [res EXCEPT !.certificate_arn = o.id], calls |-> <<c1>>]
        ELSE [ret |-> None, resources |-> res, calls |-> <<c1>>]

request_ssl_certificate ==
    /\ last.op = "idle"
    /\ \E o \in CertOutcomes :
        LET r == run_request_ssl_certificate(resources, o)
        IN  /\ resources' = r.resources
            /\ calls' = r.calls
            /\ last' = Last("request_ssl_certificate", None, r.ret, <<>>)
            /\ UNCHANGED <<domain_name, zones, bucket, dns>>

\* str.rstrip('.'): every trailing dot is removed.
RECURSIVE rstrip(_)
rstrip(s) ==
    IF s # <<>> /\ s[Len(s)] = "." THEN rstrip(SubSeq(s, 1, Len(s) - 1)) ELSE s

\* Mutant of scan_zones: the last matching zone instead of the first.
scan_zones_last(zs, d, i) ==
    LET M == {j \in i..Len(zs) : rstrip(zs[j].Name) = d}
    IN  IF M = {} THEN None ELSE zs[CHOOSE j \in M : \A k \in M : k <= j].Id

\* The loop of get_hosted_zone_id over response['HostedZones'] from index i:
\* the Id of the first zone whose stripped name is the domain, or None.
RECURSIVE scan_zones(_, _, _)
scan_zones(zs, d, i) ==
    IF i > Len(zs) THEN None
    ELSE IF rstrip(zs[i].Name) = d THEN zs[i].Id
    ELSE scan_zones(zs, d, i + 1)

\* get_hosted_zone_id with list_hosted_zones answering o.
run_get_hosted_zone_id(res, zs, d, o) ==
    LET c1 == Call("list_hosted_zones", o, None, None)
        found == scan_zones(zs, d, 1)
    IN  IF o = "ok" /\ found # None
        THEN [ret |-> found, resources |-> [res EXCEPT !.hosted_zone_id = found], calls |-> <<c1>>]
        ELSE [ret |-> None, resources |-> res, calls |-> <<c1>>]

get_hosted_zone_id ==
    /\ last.op = "idle"
    /\ \E o \in {"ok", "ClientError"} :
        LET r == run_get_hosted_zone_id(resources, zones, domain_name, o)
        IN  /\ resources' = r.resources
            /\ calls' = r.calls
            /\ last' = Last("get_hosted_zone_id", None, r.ret, <<>>)
            /\ UNCHANGED <<domain_name, zones, bucket, dns>>

\* _update_s3_bucket_policy(distribution_id) with sts.get_caller_identity
\* answering sts and s3.put_bucket_policy answering pol.  The policy document
\* is built first, and building it resolves the account id outside the try
\* block: an error there is raised to the caller.  An error of
\* put_bucket_policy is caught and printed.  The policy is kept as the
\* distribution id of its AWS:SourceArn condition.
run_update_s3_bucket_policy(res, b, distribution_id, sts, pol) ==
    LET c1 == Call("get_caller_identity", sts, None, None)
        c2 == Call("put_bucket_policy", pol, distribution_id, res.distribution_id)
    IN  IF sts # "ok"
        THEN [raised |-> TRUE, bucket |-> b, calls |-> <<c1>>]
        ELSE IF pol # "ok"
        THEN [raised |-> FALSE, bucket |-> b, calls |-> <<c1, c2>>]
        ELSE [raised |-> FALSE, bucket |-> [b EXCEPT !.policy = distribution_id],
              calls |-> <<c1, c2>>]

\* cloudfront.create_distribution answers with the id of a new distribution
\* or an error.
DistOutcomes ==
    {[out |-> "ok", id |-> d] : d \in DistIds} \cup {[out |-> "ClientError", id |-> None]}

\* Mutant of run_create_cloudfront_distribution: the ledger is written after
\* _update_s3_bucket_policy has returned instead of before it is called.
run_create_cloudfront_distribution_ledgerLast(res, b, certificate_arn, oac, dist, sts, pol) ==
    LET c1 == Call("create_origin_access_control", oac, None, None)
        c2 == Call("create_distribution", dist.out, certificate_arn, res.certificate_arn)
        res2 == [res EXCEPT !.distribution_id = dist.id, !.cloudfront_domain = DomainOf(dist.id)]
        p == run_update_s3_bucket_policy(res, b, dist.id, sts, pol)
    IN  IF oac # "ok"
        THEN [ret |-> None, resources |-> res, bucket |-> b, calls |-> <<c1>>,
              stages |-> <<>>]
        ELSE IF dist.out # "ok"
        THEN [ret |-> None, resources |-> res, bucket |-> b, calls |-> <<c1, c2>>,
              stages |-> <<>>]
        ELSE [ret |-> IF p.raised THEN None ELSE dist.id,
              resources |-> IF p.raised THEN res ELSE res2,
              bucket |-> p.bucket, calls |-> <<c1, c2>> \o p.calls,
              stages |-> <<"_update_s3_bucket_policy">>]

\* create_cloudfront_distribution(certificate_arn) with
\* create_origin_access_control answering oac and create_distribution dist.
run_create_cloudfront_distribution(res, b, certificate_arn, oac, dist, sts, pol) ==
    LET c1 == Call("create_origin_access_control", oac, None, None)
        c2 == Call("create_distribution", dist.out, certificate_arn, res.certificate_arn)
        res2 == [res EXCEPT !.distribution_id = dist.id, !.cloudfront_domain = DomainOf(dist.id)]
        p == run_update_s3_bucket_policy(res2, b, dist.id, sts, pol)
    IN  IF oac # "ok"
        THEN [ret |-> None, resources |-> res, bucket |-> b, calls |-> <<c1>>,
              stages |-> <<>>]
        ELSE IF dist.out # "ok"
        THEN [ret |-> None, resources |-> res, bucket |-> b, calls |-> <<c1, c2>>,
              stages |-> <<>>]
        ELSE [ret |-> IF p.raised THEN None ELSE dist.id,
              resources |-> res2, bucket |-> p.bucket, calls |-> <<c1, c2>> \o p.calls,
              stages |-> <<"_update_s3_bucket_policy">>]

\* The outcomes of the four calls of create_cloudfront_distribution; a call
\* that is not reached has no outcome, which is fixed to a placeholder.
CloudFrontOutcomes(b) ==
    {o \in [oac : {"ok", "ClientError"}, dist : DistOutcomes,
            sts : {"ok", "ClientError"}, pol : {"ok", "ClientError"}] :
        /\ (o.oac # "ok" => o.dist.out = "ClientError")
        /\ (o.dist.out # "ok" => o.sts = "ok")
        /\ IF o.dist.out = "ok" /\ o.sts = "ok"
           THEN o.pol \in BucketCallOutcomes(b)
           ELSE o.pol = "ok"}

create_cloudfront_distribution ==
    /\ last.op = "idle"
    /\ \E certificate_arn \in CertArns, o \in CloudFrontOutcomes(bucket) :
        LET r == run_create_cloudfront_distribution(resources, bucket, certificate_arn,
                                                    o.oac, o.dist, o.sts, o.pol)
        IN  /\ resources' = r.resources
            /\ bucket' = r.bucket
            /\ calls' = r.calls
            /\ last' = Last("create_cloudfront_distribution", certificate_arn, r.ret, r.stages)
            /\ UNCHANGED <<domain_name, zones, dns>>

\* route53 change_resource_record_sets with one UPSERT change: the record set
\* of that name and type in the zone is created or replaced.
Upsert(records, zone, name, target) ==
    {r \in records : ~(r.zone = zone /\ r.name = name /\ r.type = "A")}
        \cup {[zone |-> zone, name |-> name, type |-> "A", target |-> target,
                aliasZone |-> "Z2FDTNDATAQYW2"]}

\* Mutant of run_create_route53_records: the second change names the apex
\* domain again instead of the www subdomain.
run_create_route53_records_apexTwice(res, zs, d, records, cloudfront_domain, ol, o1, o2) ==
    LET z == run_get_hosted_zone_id(res, zs, d, ol)
        c1 == Call("change_resource_record_sets", o1, cloudfront_domain, z.resources.cloudfront_domain)
        c2 == Call("change_resource_record_sets", o2, cloudfront_domain, z.resources.cloudfront_domain)
        d1 == Upsert(records, z.ret, d, cloudfront_domain)
        d2 == Upsert(d1, z.ret, d, cloudfront_domain)
    IN  IF z.ret = None
        THEN [ret |-> FALSE, resources |-> z.resources, dns |-> records, calls |-> z.calls]
        ELSE IF o1 # "ok"
        THEN [ret |-> FALSE, resources |-> z.resources, dns |-> records,
              calls |-> z.calls \o <<c1>>]
        ELSE IF o2 # "ok"
        THEN [ret |-> FALSE, resources |-> z.resources, dns |-> d1,
              calls |-> z.calls \o <<c1, c2>>]
        ELSE [ret |-> TRUE, resources |-> z.resources, dns |-> d2,
              calls |-> z.calls \o <<c1, c2>>]

\* create_route53_records(cloudfront_domain) with list_hosted_zones answering
\* ol and the two change_resource_record_sets calls o1 and o2.
run_create_route53_records(res, zs, d, records, cloudfront_domain, ol, o1, o2) ==
    LET z == run_get_hosted_zone_id(res, zs, d, ol)
        c1 == Call("change_resource_record_sets", o1, cloudfront_domain, z.resources.cloudfront_domain)
        c2 == Call("change_resource_record_sets", o2, cloudfront_domain, z.resources.cloudfront_domain)
        d1 == Upsert(records, z.ret, d, cloudfront_domain)
        d2 == Upsert(d1, z.ret, <<"w", "w", "w", ".">> \o d, cloudfront_domain)
    IN  IF z.ret = None
        THEN [ret |-> FALSE, resources |-> z.resources, dns |-> records, calls |-> z.calls]
        ELSE IF o1 # "ok"
        THEN [ret |-> FALSE, resources |-> z.resources, dns |-> records,
              calls |-> z.calls \o <<c1>>]
        ELSE IF o2 # "ok"
        THEN [ret |-> FALSE, resources |-> z.resources, dns |-> d1,
              calls |-> z.calls \o <<c1, c2>>]
        ELSE [ret |-> TRUE, resources |-> z.resources, dns |-> d2,
              calls |-> z.calls \o <<c1, c2>>]

Route53Outcomes ==
    {o \in [ol : {"ok", "ClientError"}, o1 : {"ok", "ClientError"}, o2 : {"ok", "ClientError"}] :
        /\ (o.ol # "ok" => o.o1 = "ok")
        /\ (o.o1 # "ok" => o.o2 = "ok")}

create_route53_records ==
    /\ last.op = "idle"
    /\ \E cloudfront_domain \in DistDomains, o \in Route53Outcomes :
        LET r == run_create_route53_records(resources, zones, domain_name, dns,
                                            cloudfront_domain, o.ol, o.o1, o.o2)
        IN  /\ resources' = r.resources
            /\ dns' = r.dns
            /\ calls' = r.calls
            /\ last' = Last("create_route53_records", cloudfront_domain, r.ret, <<"get_hosted_zone_id">>)
            /\ UNCHANGED <<domain_name, zones, bucket>>

\* upload_sample_content with s3.put_object answering o; an error is caught
\* and printed.
run_upload_sample_content(b, o) ==
    [bucket |-> IF o = "ok" THEN [b EXCEPT !.index = TRUE] ELSE b,
     calls |-> <<Call("put_object", o, None, None)>>]

upload_sample_content ==
    /\ last.op = "idle"
    /\ \E o \in BucketCallOutcomes(bucket) :
        LET r == run_upload_sample_content(bucket, o)
        IN  /\ bucket' = r.bucket
            /\ calls' = r.calls
            /\ last' = Last("upload_sample_content", None, None, <<>>)
            /\ UNCHANGED <<domain_name, zones, resources, dns>>

\* Mutant of run_deploy_full_infrastructure: the result of create_s3_bucket
\* is not looked at and the certificate is requested in any case.
run_deploy_full_infrastructure_noHalt(res, b, s3o, certo) ==
    LET s == run_create_s3_bucket(b, s3o[1], s3o[2], s3o[3])
        c == run_request_ssl_certificate(res, certo)
    IN  IF c.ret = None
        THEN [ret |-> [success |-> FALSE, step |-> "SSL certificate request"],
              resources |-> c.resources, bucket |-> s.bucket, calls |-> s.calls \o c.calls,
              stages |-> <<"create_s3_bucket", "request_ssl_certificate">>]
        ELSE [ret |-> [success |-> TRUE, step |-> "Certificate validation required",
                       certificate_arn |-> c.ret],
              resources |-> c.resources, bucket |-> s.bucket, calls |-> s.calls \o c.calls,
              stages |-> <<"create_s3_bucket", "request_ssl_certificate">>]

\* Mutant of run_deploy_full_infrastructure: a failed certificate request is
\* tried a second time.
run_deploy_full_infrastructure_retry(res, b, s3o, certo) ==
    LET s == run_create_s3_bucket(b, s3o[1], s3o[2], s3o[3])
        c == run_request_ssl_certificate(res, certo)
    IN  IF ~s.ret
        THEN [ret |-> [success |-> FALSE, step |-> "S3 bucket creation"],
              resources |-> res, bucket |-> s.bucket, calls |-> s.calls,
              stages |-> <<"create_s3_bucket">>]
        ELSE IF c.ret = None
        THEN [ret |-> [success |-> FALSE, step |-> "SSL certificate request"],
              resources |-> c.resources, bucket |-> s.bucket,
              calls |-> s.calls \o c.calls \o c.calls,
              stages |-> <<"create_s3_bucket", "request_ssl_certificate",
                           "request_ssl_certificate">>]
        ELSE [ret |-> [success |-> TRUE, step |-> "Certificate validation required",
                       certificate_arn |-> c.ret],
              resources |-> c.resources, bucket |-> s.bucket, calls |-> s.calls \o c.calls,
              stages |-> <<"create_s3_bucket", "request_ssl_certificate">>]

\* deploy_full_infrastructure: create_s3_bucket, then request_ssl_certificate,
\* then the result that asks for the manual validation.
run_deploy_full_infrastructure(res, b, s3o, certo) ==
    LET s == run_create_s3_bucket(b, s3o[1], s3o[2], s3o[3])
        c == run_request_ssl_certificate(res, certo)
    IN  IF ~s.ret
        THEN [ret |-> [success |-> FALSE, step |-> "S3 bucket creation"],
              resources |-> res, bucket |-> s.bucket, calls |-> s.calls,
              stages |-> <<"create_s3_bucket">>]
        ELSE IF c.ret = None
        THEN [ret |-> [success |-> FALSE, step |-> "SSL certificate request"],
              resources |-> c.resources, bucket |-> s.bucket, calls |-> s.calls \o c.calls,
              stages |-> <<"create_s3_bucket", "request_ssl_certificate">>]
        ELSE [ret |-> [success |-> TRUE, step |-> "Certificate validation required",
                       certificate_arn |-> c.ret],
              resources |-> c.resources, bucket |-> s.bucket, calls |-> s.calls \o c.calls,
              stages |-> <<"create_s3_bucket", "request_ssl_certificate">>]

\* The outcomes of the calls of deploy_full_infrastructure; the certificate
\* request has an outcome only if the bucket stage succeeded.
DeployOutcomes(b) ==
    {o \in [s3 : S3Outcomes(b), cert : CertOutcomes] :
        ~run_create_s3_bucket(b, o.s3[1], o.s3[2], o.s3[3]).ret => o.cert.out = "ClientError"}

deploy_full_infrastructure ==
    /\ last.op = "idle"
    /\ \E o \in DeployOutcomes(bucket) :
        LET r == run_deploy_full_infrastructure(resources, bucket, o.s3, o.cert)
        IN  /\ resources' = r.resources
            /\ bucket' = r.bucket
            /\ calls' = r.calls
            /\ last' = Last("deploy_full_infrastructure", None, r.ret, r.stages)
            /\ UNCHANGED <<domain_name, zones, dns>>

\* s3.head_bucket answers "ok" for the bucket or 403 when access to it is
\* refused, and 404 when there is no bucket; 403 and 404 are both raised as
\* ClientError.
HeadBucketOutcomes(b) == IF b.exists THEN {"ok", "403"} ELSE {"404"}

\* describe_certificate and get_distribution answer with a status string or
\* an error; "skipped" when the ledger slot is unset and the call is not made.
DescribeOutcomes(slot, status) == IF slot # None THEN {status, "ClientError"} ELSE {"skipped"}

\* get_status with head_bucket answering hb, describe_certificate cs and
\* get_distribution ds: the snapshot, a dict whose keys are its DOMAIN.
run_get_status(res, d, hb, cs, ds) ==
    LET keys == {"domain", "resources", "s3_bucket"}
                    \cup (IF res.certificate_arn # None THEN {"certificate_status"} ELSE {})
                    \cup (IF res.distribution_id # None THEN {"distribution_status"} ELSE {})
        status == [k \in keys |->
                     CASE k = "domain" -> d
                       [] k = "resources" -> res
                       [] k = "s3_bucket" -> IF hb = "ok" THEN "exists" ELSE "missing"
                       [] k = "certificate_status" -> IF cs = "ClientError" THEN "error" ELSE cs
                       [] k = "distribution_status" -> IF ds = "ClientError" THEN "error" ELSE ds]
        c1 == <<Call("head_bucket", hb, None, None)>>
        c2 == IF res.certificate_arn # None
              THEN <<Call("describe_certificate", cs, res.certificate_arn, res.certificate_arn)>>
              ELSE <<>>
        c3 == IF res.distribution_id # None
              THEN <<Call("get_distribution", ds, res.distribution_id, res.distribution_id)>>
              ELSE <<>>
    IN  [ret |-> status, calls |-> c1 \o c2 \o c3]

StatusOutcomes(res, b) ==
    [hb : HeadBucketOutcomes(b),
     cs : DescribeOutcomes(res.certificate_arn, "ISSUED"),
     ds : DescribeOutcomes(res.distribution_id, "Deployed")]

get_status ==
    /\ last.op = "idle"
    /\ \E o \in StatusOutcomes(resources, bucket) :
        LET r == run_get_status(resources, domain_name, o.hb, o.cs, o.ds)
        IN  /\ calls' = r.calls
            /\ last' = Last("get_status", None, r.ret, <<>>)
            /\ UNCHANGED <<domain_name, zones, resources, bucket, dns>>

\* main(): a new BlogInfrastructure, then the method --action selects.
main ==
    /\ last.op = "idle"
    /\ \/ \E o \in DeployOutcomes(bucket) :
            LET r == run_deploy_full_infrastructure(NewResources, bucket, o.s3, o.cert)
            IN  /\ resources' = r.resources
                /\ bucket' = r.bucket
                /\ calls' = r.calls
                /\ last' = [Last("main", "deploy", r.ret,
                                 <<"deploy_full_infrastructure">> \o r.stages)
                                EXCEPT !.pre = NewResources]
                /\ UNCHANGED <<domain_name, zones, dns>>
       \/ \E o \in StatusOutcomes(NewResources, bucket) :
            LET r == run_get_status(NewResources, domain_name, o.hb, o.cs, o.ds)
            IN  /\ resources' = NewResources
                /\ calls' = r.calls
                /\ last' = [Last("main", "status", r.ret, <<"get_status">>)
                                EXCEPT !.pre = NewResources]
                /\ UNCHANGED <<domain_name, zones, bucket, dns>>
       \/ \E o \in BucketCallOutcomes(bucket) :
            LET r == run_upload_sample_content(bucket, o)
            IN  /\ resources' = NewResources
                /\ bucket' = r.bucket
                /\ calls' = r.calls
                /\ last' = [Last("main", "upload-sample", None, <<"upload_sample_content">>)
                                EXCEPT !.pre = NewResources]
                /\ UNCHANGED <<domain_name, zones, dns>>

\* The method has returned and its caller has taken the result (main prints
\* it): the record of the call is dropped, the ledger and the providers keep
\* their state.
Return ==
    /\ last.op # "idle"
    /\ last' = Idle
    /\ calls' = <<>>
    /\ UNCHANGED <<domain_name, zones, resources, bucket, dns>>

\* The state after construction, before any bucket, record set or
\* certificate exists, with the domain and the hosted zones of the run drawn
\* from the given sets.
InitWith(domains, zoneLists) ==
    /\ domain_name \in domains
    /\ zones \in zoneLists
    /\ resources = NewResources
    /\ bucket = NoBucket
    /\ dns = {}
    /\ last = Idle
    /\ calls = <<>>

\* The orchestration is run for one domain, without and with its hosted zone;
\* SpecZones below runs the zone lookup over every domain and zone list.
Init ==
    InitWith({<<"a">>}, {<<>>, <<[Name |-> <<"a", ".">>, Id |-> <<"zone", 1>>]>>})

Next ==
    \/ create_s3_bucket
    \/ request_ssl_certificate
    \/ get_hosted_zone_id
    \/ create_cloudfront_distribution
    \/ create_route53_records
    \/ upload_sample_content
    \/ deploy_full_infrastructure
    \/ get_status
    \/ main
    \/ Return

Spec == Init /\ [][Next]_vars

\* The hosted-zone resolver alone, over every list of up to MaxZones zones.
InitZones == InitWith(Domains, SeqsUpTo(ZoneRecords, MaxZones))

NextZones ==
    \/ get_hosted_zone_id
    \/ Return

SpecZones == InitZones /\ [][NextZones]_vars

(***************************************************************************)
(* The claims.                                                             *)
(***************************************************************************)

\* The provider calls of each stage.
BucketStageApis == {"create_bucket", "put_bucket_versioning", "put_public_access_block"}
LaterStageApis ==
    {"request_certificate", "create_origin_access_control", "create_distribution",
     "get_caller_identity", "put_bucket_policy", "list_hosted_zones",
     "change_resource_record_sets", "put_object"}
LaterStages ==
    {"request_ssl_certificate", "create_cloudfront_distribution", "_update_s3_bucket_policy",
     "get_hosted_zone_id", "create_route53_records", "upload_sample_content"}

\* The deploy pipeline has just returned, called directly or through main.
DeployRan ==
    \/ last.op = "deploy_full_infrastructure"
    \/ (last.op = "main" /\ last.arg = "deploy")

\* A call of the bucket stage failed with an error other than
\* BucketAlreadyOwnedByYou.
BucketStageError ==
    \E i \in DOMAIN calls : calls[i].api \in BucketStageApis /\ calls[i].out = "ClientError"

\* C1: when the bucket stage of the deploy pipeline fails with an error other
\* than already-owned-by-caller, the result is a failure whose step is the
\* bucket creation and no call or method of a later stage has been made.
C1_BucketFailureHalts ==
    (DeployRan /\ BucketStageError) =>
        /\ last.ret.success = FALSE
        /\ last.ret.step = "S3 bucket creation"
        /\ \A i \in DOMAIN calls : calls[i].api \notin LaterStageApis
        /\ \A i \in DOMAIN last.stages : last.stages[i] \notin LaterStages

\* C1 witness: deploy returned after put_bucket_versioning failed on a bucket
\* that create_bucket had just created.
C1_Witness ==
    /\ DeployRan
    /\ ~last.had
    /\ Len(calls) = 2
    /\ calls[2] = Call("put_bucket_versioning", "ClientError", None, None)

\* C2 (as claimed): create_cloudfront_distribution returns None whenever one
\* of its calls failed, and a distribution id only when all four succeeded.
C2_AnyFailureReported ==
    last.op = "create_cloudfront_distribution" =>
        /\ (\E i \in DOMAIN calls : calls[i].out # "ok") => last.ret = None
        /\ last.ret # None => (Len(calls) = 4 /\ \A i \in DOMAIN calls : calls[i].out = "ok")

\* The calls that pass a reference to a resource of an earlier stage.
ReferenceApis == {"create_distribution", "put_bucket_policy", "change_resource_record_sets"}

\* C3 (as claimed): every reference a call passes to an earlier-stage
\* resource is the value the ledger holds when the call is made.
C3_ReferencesFromLedger ==
    \A i \in DOMAIN calls : calls[i].api \in ReferenceApis => calls[i].ref = calls[i].held

\* C3 (amended): the distribution in the bucket policy is the ledger's
\* distribution id at the time of the call; the certificate of the submitted
\* distribution config and the alias target of the DNS changes are the
\* argument the caller passed.
C3_ReferencesFromLedgerOrArgument ==
    \A i \in DOMAIN calls :
        /\ calls[i].api = "put_bucket_policy" =>
              (calls[i].ref = calls[i].held /\ calls[i].ref = resources.distribution_id)
        /\ calls[i].api \in {"create_distribution", "change_resource_record_sets"} =>
              calls[i].ref = last.arg

\* C3 witness: a second distribution was created with a certificate other
\* than the ledger's one, and the policy was bound to the new distribution.
C3_Witness ==
    /\ last.op = "create_cloudfront_distribution"
    /\ last.pre.certificate_arn # None
    /\ last.arg # last.pre.certificate_arn
    /\ last.pre.distribution_id # None
    /\ last.pre.distribution_id # resources.distribution_id
    /\ \E i \in DOMAIN calls : calls[i].api = "put_bucket_policy" /\ calls[i].out = "ok"

\* C4 (as claimed): whenever create_s3_bucket has returned success, the
\* bucket exists with versioning enabled and the four public access block
\* flags set.
C4_SuccessMeansSecured ==
    (last.op = "create_s3_bucket" /\ last.ret = TRUE) =>
        /\ bucket.exists
        /\ bucket.versioning
        /\ bucket.pab = AllFlags

\* C5: create_s3_bucket returns failure exactly when one of its calls failed
\* with an error other than BucketAlreadyOwnedByYou; on a bucket that exists,
\* BucketAlreadyOwnedByYou is returned as success.
C5_OwnedIsSuccess ==
    last.op = "create_s3_bucket" =>
        /\ BucketStageError => last.ret = FALSE
        /\ ~BucketStageError => last.ret = TRUE
        /\ (last.had /\ calls[1].out = "BucketAlreadyOwnedByYou") => last.ret = TRUE

\* C5 witness: create_s3_bucket run again on the bucket it had created was
\* answered BucketAlreadyOwnedByYou.
C5_Witness ==
    /\ last.op = "create_s3_bucket"
    /\ last.had
    /\ calls = <<Call("create_bucket", "BucketAlreadyOwnedByYou", None, None)>>
    /\ last.ret = TRUE

\* The status query has just returned, called directly or through main.
StatusRan ==
    \/ last.op = "get_status"
    \/ (last.op = "main" /\ last.arg = "status")

\* The outcome of the call of api in the status query, "skipped" if not made.
StatusCall(api) ==
    IF \E i \in DOMAIN calls : calls[i].api = api
    THEN calls[CHOOSE i \in DOMAIN calls : calls[i].api = api].out
    ELSE "skipped"

\* C6 (as claimed): the snapshot has the certificate and distribution fields
\* exactly when their ledger slots are set, and each sub-query that fails
\* turns its own field into "error": the bucket probe reports "exists" for a
\* bucket, "missing" for none (404) and "error" when it fails otherwise.
C6_FailureDegradesOwnField ==
    StatusRan =>
        /\ ("certificate_status" \in DOMAIN last.ret) = (resources.certificate_arn # None)
        /\ ("distribution_status" \in DOMAIN last.ret) = (resources.distribution_id # None)
        /\ last.ret["s3_bucket"] =
              CASE StatusCall("head_bucket") = "ok" -> "exists"
                [] StatusCall("head_bucket") = "404" -> "missing"
                [] OTHER -> "error"
        /\ StatusCall("describe_certificate") = "ClientError" =>
              last.ret["certificate_status"] = "error"
        /\ StatusCall("get_distribution") = "ClientError" =>
              last.ret["distribution_status"] = "error"

\* The bucket stage of the last method returned success.
BucketStageSucceeded ==
    /\ calls # <<>>
    /\ \/ calls[1].out = "BucketAlreadyOwnedByYou"
       \/ (Len(calls) >= 3 /\ \A i \in 1..3 : calls[i].out = "ok")

\* last.stages without the entry of main's own call of the pipeline.
DeployStages == IF last.op = "main" THEN Tail(last.stages) ELSE last.stages

\* C7: deploy calls create_s3_bucket and then, only if it succeeded,
\* request_ssl_certificate and nothing else, and issues no provider call
\* twice.
C7_DeployStopsAfterCertificate ==
    DeployRan =>
        /\ \A i \in DOMAIN calls : calls[i].api \in BucketStageApis \cup {"request_certificate"}
        /\ \A i, j \in DOMAIN calls : i # j => calls[i].api # calls[j].api
        /\ \A i \in DOMAIN calls :
              calls[i].api = "request_certificate" =>
                  (i = Len(calls) /\ \A j \in 1..(i - 1) : calls[j].api \in BucketStageApis)
        /\ DeployStages = IF BucketStageSucceeded
                          THEN <<"create_s3_bucket", "request_ssl_certificate">>
                          ELSE <<"create_s3_bucket">>
        /\ (\E i \in DOMAIN calls : calls[i].api = "request_certificate") = BucketStageSucceeded

\* C7 witness: main --action deploy created the bucket, requested the
\* certificate and returned the result that asks for the validation.
C7_Witness ==
    /\ last.op = "main"
    /\ last.arg = "deploy"
    /\ Len(calls) = 4
    /\ last.ret.success
    /\ last.ret.step = "Certificate validation required"
    /\ resources.certificate_arn = last.ret.certificate_arn

\* The zone name without its trailing separator.
StripSeparator(name) ==
    IF name # <<>> /\ name[Len(name)] = "." THEN SubSeq(name, 1, Len(name) - 1) ELSE name

\* The positions of the zones whose name is the domain.
Matching == {i \in DOMAIN zones : StripSeparator(zones[i].Name) = domain_name}

\* C8: get_hosted_zone_id returns the id of the first zone whose name without
\* trailing separator is the domain, and None when there is none.
C8_FirstMatchingZone ==
    (last.op = "get_hosted_zone_id" /\ calls[1].out = "ok") =>
        IF Matching = {}
        THEN last.ret = None
        ELSE last.ret = zones[CHOOSE i \in Matching : \A j \in Matching : i <= j].Id

\* C8 witness: two zones match the domain and the id of the first one, which
\* is not the id of the second, was returned.
C8_Witness ==
    /\ last.op = "get_hosted_zone_id"
    /\ Matching = {1, 2}
    /\ zones[1].Id # zones[2].Id
    /\ last.ret = zones[1].Id

\* The records of kind A for the apex and the www name in zone z.
AliasRecords(records, z) ==
    {r \in records : r.zone = z /\ r.type = "A" /\ r.name \in {domain_name, www_domain}}

\* One alias record for the apex and one for www, both to target.
AliasPair(z, target) ==
    {[zone |-> z, name |-> n, type |-> "A", target |-> target, aliasZone |-> "Z2FDTNDATAQYW2"] :
        n \in {domain_name, www_domain}}

\* C9: a successful create_route53_records leaves exactly one alias record
\* for the apex and one for www, both to the given domain, and a call with
\* the zone and target of records that are already so leaves the record sets
\* as they were.
C9_UpsertIdempotent ==
    last.op = "create_route53_records" =>
        /\ last.ret = TRUE =>
              AliasRecords(dns, resources.hosted_zone_id) =
                  AliasPair(resources.hosted_zone_id, last.arg)
        /\ (/\ resources.hosted_zone_id # None
            /\ AliasRecords(last.dns0, resources.hosted_zone_id) =
                  AliasPair(resources.hosted_zone_id, last.arg)) => dns = last.dns0

\* C9 witness: the second successful call with the same target.
C9_Witness ==
    /\ last.op = "create_route53_records"
    /\ last.ret = TRUE
    /\ AliasRecords(last.dns0, resources.hosted_zone_id) =
          AliasPair(resources.hosted_zone_id, last.arg)
    /\ dns = last.dns0

\* C10 (as claimed): a stage that returns None or False leaves the ledger as
\* it was.
C10_FailureLeavesLedger ==
    /\ (last.op \in {"request_ssl_certificate", "get_hosted_zone_id",
                     "create_cloudfront_distribution"} /\ last.ret = None) =>
          resources = last.pre
    /\ (last.op = "create_route53_records" /\ last.ret = FALSE) => resources = last.pre

\* create_distribution succeeded in the last method.
DistributionSubmitted ==
    \E i \in DOMAIN calls : calls[i].api = "create_distribution" /\ calls[i].out = "ok"

\* C10 (amended): request_ssl_certificate and get_hosted_zone_id returning
\* None leave the ledger as it was.  create_cloudfront_distribution returning
\* None leaves it as it was unless create_distribution had succeeded, and then
\* the distribution id and domain slots hold the new distribution and the
\* other slots are as they were.  create_route53_records returning False
\* leaves every slot but hosted_zone_id as it was.  The distribution slots
\* change only in a create_cloudfront_distribution whose create_distribution
\* succeeded.
C10_FailureLedgerFrame ==
    /\ (last.op \in {"request_ssl_certificate", "get_hosted_zone_id"} /\ last.ret = None) =>
          resources = last.pre
    /\ (last.op = "create_cloudfront_distribution" /\ last.ret = None) =>
          IF DistributionSubmitted
          THEN /\ resources.distribution_id \in DistIds
               /\ resources.cloudfront_domain = DomainOf(resources.distribution_id)
               /\ resources.certificate_arn = last.pre.certificate_arn
               /\ resources.hosted_zone_id = last.pre.hosted_zone_id
          ELSE resources = last.pre
    /\ (last.op = "create_route53_records" /\ last.ret = FALSE) =>
          [resources EXCEPT !.hosted_zone_id = None] = [last.pre EXCEPT !.hosted_zone_id = None]
    /\ (last.op \notin {"idle", "main"}
            /\ ~(last.op = "create_cloudfront_distribution" /\ DistributionSubmitted)) =>
          /\ resources.distribution_id = last.pre.distribution_id
          /\ resources.cloudfront_domain = last.pre.cloudfront_domain

\* C10 witness: create_cloudfront_distribution returned None because the
\* account id could not be resolved, after the distribution was created.
C10_Witness ==
    /\ last.op = "create_cloudfront_distribution"
    /\ last.ret = None
    /\ DistributionSubmitted
    /\ last.pre.distribution_id = None
    /\ calls[Len(calls)] = Call("get_caller_identity", "ClientError", None, None)

====
